---- MODULE Spec2Model ----
(***************************************************************************)
(* Model of src/src/mysql/index.ts.  The file holds two server programs:   *)
(* the relational (MySQL) server, lines 1-136, and the cloud (Google       *)
(* Drive / Sheets) server, lines 137-1122.  A run of the model is a run of *)
(* one of them; the variable `server` says which.                          *)
(*                                                                         *)
(* Strings that the code takes apart (URIs, table names, column letters)   *)
(* are sequences of one-character strings; column letters are sequences of *)
(* character codes, because the code does arithmetic on the codes.         *)
(***************************************************************************)
EXTENDS Integers, Sequences, FiniteSets, TLC

VARIABLES
  server,      \* "mysql" | "gdrive": which of the two programs is running
  \* ---- relational server ----
  pc,          \* pc[r]: where request r's handler is suspended
  req,         \* req[r]: the request being handled
  conn,        \* conn[r]: the pool connection the handler holds (0: none)
  free,        \* the pool's free connections
  inTx,        \* inTx[c]: connection c's session has an open transaction
  pending,     \* pending[c]: the open transaction holds an uncommitted write
  durable,     \* number of durable (committed) mutations of the database
  completion,  \* completion[r]: the try block's pending return/throw
  reply,       \* reply[r]: what the caller of the handler got
  log,         \* log[r]: the client calls the handler issued, in order
               \*         ("x:rejected" for a call x that failed)
  warned,      \* warned[r]: console.warn("Could not roll back ...") was called
  queried,     \* queried[r]: the parameter bound to the handler's catalog
               \*   query: the table name (read-resource), none (list-resources)
  \* ---- cloud server (its handlers share no state: one request at a time) ----
  gpc,         \* where the request's handler is suspended
  greq,        \* the request being handled
  gcalls,      \* the Drive / Sheets API calls the handler issued, in order
  greply,      \* what the caller of the handler got
  gfileId,     \* read-resource: the fileId handed to drive.files.get
  gflags,      \* verifyFileAccess: what the backend reported about the file
  gverify,     \* verifyFileAccess: "none", "ok" or the error it throws
  glist,       \* list-resources: page token sent, page and token received
  clientCursor,\* a paging client: the cursor of its next list request
  clientPages, \* a paging client: the pages it received, in order
  \* ---- the checks of the pure conversions ----
  codec,       \* an object path, its resource URI and the URI's decoding
  col,         \* a column index or label and its conversions
  rng,         \* a sheet tool's sheet name and range, and the range it sends
  fmt          \* format_sheet's formatting object and the cell format it sends

mysqlVars == <<pc, req, conn, free, inTx, pending, durable, completion, reply,
               log, warned, queried>>

gdriveVars == <<gpc, greq, gcalls, greply, gfileId, gflags, gverify, glist,
                clientCursor, clientPages>>

pureVars == <<codec, col, rng, fmt>>

vars == <<server, mysqlVars, gdriveVars, pureVars>>

(***************************************************************************)
(* Bounds of the model.                                                    *)
(***************************************************************************)
NumReq == 2        \* request slots: handlers that may be in flight at once
PoolSize == 1      \* connections of the pool (the pool's connectionLimit)
MaxCommits == 1    \* cap of the durable-mutation counter
MaxNameLen == 3    \* longest table name / file id of the codec check
NumPages == 3      \* pages of the cloud backend's file catalog

Requests == 1..NumReq
Conns == 1..PoolSize

(***************************************************************************)
(* Strings as sequences of characters.                                     *)
(***************************************************************************)
Undefined == <<"undefined">>     \* JavaScript's undefined (Array.pop of [])

RECURSIVE IndexOfFrom(_, _, _)
\* String.indexOf(sub, i): the first position >= i where sub occurs, or 0.
IndexOfFrom(s, sub, i) ==
  IF i + Len(sub) - 1 > Len(s) THEN 0
  ELSE IF SubSeq(s, i, i + Len(sub) - 1) = sub THEN i
  ELSE IndexOfFrom(s, sub, i + 1)

IndexOf(s, sub) == IndexOfFrom(s, sub, 1)

Includes(s, sub) == IndexOf(s, sub) # 0

StartsWith(s, p) == Len(s) >= Len(p) /\ SubSeq(s, 1, Len(p)) = p

\* String.replace(pattern, replacement) with a string pattern: the first
\* occurrence only.
ReplaceFirst(s, pat, rep) ==
  LET i == IndexOf(s, pat)
  IN IF i = 0 THEN s
     ELSE SubSeq(s, 1, i - 1) \o rep \o SubSeq(s, i + Len(pat), Len(s))

RECURSIVE Split(_, _)
\* String.split(sep) for a one-character separator.
Split(s, sep) ==
  LET i == IndexOf(s, <<sep>>)
  IN IF i = 0 THEN <<s>>
     ELSE <<SubSeq(s, 1, i - 1)>> \o Split(SubSeq(s, i + 1, Len(s)), sep)

\* Array.pop(): the last element (undefined for an empty array) and the rest.
PopValue(a) == IF Len(a) = 0 THEN Undefined ELSE a[Len(a)]
PopRest(a) == IF Len(a) = 0 THEN a ELSE SubSeq(a, 1, Len(a) - 1)

\* The first position of s holding a character of set cs, or Len(s) + 1.
RECURSIVE FirstOf(_, _, _)
FirstOf(s, cs, i) ==
  IF i > Len(s) THEN Len(s) + 1
  ELSE IF s[i] \in cs THEN i
  ELSE FirstOf(s, cs, i + 1)

RECURSIVE StringsUpTo(_, _)
\* All strings over alphabet of length 1..n.
StringsUpTo(alphabet, n) ==
  IF n = 0 THEN {}
  ELSE LET shorter == StringsUpTo(alphabet, n - 1)
       IN {<<c>> : c \in alphabet}
            \cup {s \o <<c>> : s \in shorter, c \in alphabet}

(***************************************************************************)
(* URLs (the WHATWG URL class the relational server uses), as far as the   *)
(* characters of the model go: letters, "_", " ", "%", ":", "/", "?", "#". *)
(* Dot segments, "\" and non-ASCII characters are outside the model.       *)
(***************************************************************************)
AsciiAlpha ==
  {"a", "b", "c", "d", "e", "f", "g", "h", "i", "j", "k", "l", "m", "n", "o",
   "p", "q", "r", "s", "t", "u", "v", "w", "x", "y", "z"}

RECURSIVE PercentEncode(_)
\* The path, query and fragment percent-encode sets all hold the space; none
\* holds "%", "_" or a letter.
PercentEncode(s) ==
  IF s = <<>> THEN <<>>
  ELSE (IF Head(s) = " " THEN <<"%", "2", "0">> ELSE <<Head(s)>>)
         \o PercentEncode(Tail(s))

SCHEMA_PATH == <<"s", "c", "h", "e", "m", "a">>

\* resourceBaseUrl: the database URL with protocol "mysql:" and no password,
\* e.g. mysql://magento@localhost:3306/magento?charset=utf8.
BaseScheme == <<"m", "y", "s", "q", "l">>
BaseAuthority == <<"h">>
BaseDbName == <<"d", "b">>
BaseQuery == <<"c">>

Origin == BaseScheme \o <<":", "/", "/">> \o BaseAuthority

\* new URL(input): the parse of an absolute URL.  ok = FALSE is the
\* TypeError the constructor throws when input has no scheme.
ParseUrl(input) ==
  LET colon == IndexOf(input, <<":">>)
      ok == colon > 1 /\ \A i \in 1..(colon - 1) : input[i] \in AsciiAlpha
      rest == SubSeq(input, colon + 1, Len(input))
      hier == StartsWith(rest, <<"/", "/">>)
      afterAuth == IF hier THEN SubSeq(rest, 3, Len(rest)) ELSE rest
      authEnd == IF hier THEN FirstOf(afterAuth, {"/", "?", "#"}, 1) ELSE 1
      tail == SubSeq(afterAuth, authEnd, Len(afterAuth))
      pathEnd == FirstOf(tail, {"?", "#"}, 1)
  IN [ok |-> ok,
      scheme |-> IF ok THEN SubSeq(input, 1, colon - 1) ELSE <<>>,
      pathname |-> IF ok THEN PercentEncode(SubSeq(tail, 1, pathEnd - 1))
                   ELSE <<>>]

\* new URL(rel, resourceBaseUrl).href for a relative reference rel that holds
\* no "/" before its path ends and no ":" (a table name followed by /schema).
ResolveHref(rel) ==
  LET hashAt == FirstOf(rel, {"#"}, 1)
      head == SubSeq(rel, 1, hashAt - 1)
      hasFragment == hashAt <= Len(rel)
      fragment == SubSeq(rel, hashAt + 1, Len(rel))
      qAt == FirstOf(head, {"?"}, 1)
      relPath == SubSeq(head, 1, qAt - 1)
      hasQuery == qAt <= Len(head)
      query == SubSeq(head, qAt + 1, Len(head))
      \* an empty relative path keeps the base's path; otherwise the base's
      \* last segment (the database name) is replaced
      path == IF relPath = <<>> THEN <<"/">> \o BaseDbName
              ELSE <<"/">> \o PercentEncode(relPath)
      \* a reference that is only a fragment keeps the base's query
      q == IF hasQuery THEN <<"?">> \o PercentEncode(query)
           ELSE IF relPath = <<>> THEN <<"?">> \o BaseQuery
           ELSE <<>>
      f == IF hasFragment THEN <<"#">> \o PercentEncode(fragment) ELSE <<>>
  IN Origin \o path \o q \o f

\* The URI the list-resources handler gives a table.
MysqlResourceUri(tableName) == ResolveHref(tableName \o <<"/">> \o SCHEMA_PATH)

\* The read-resource handler's decoding of a URI, up to its check of the view:
\* error "TypeError" (new URL threw), "InvalidResourceURI" or "none".
MysqlDecodeUri(uri) ==
  LET resourceUrl == ParseUrl(uri)
      pathComponents == Split(resourceUrl.pathname, "/")
      schema == PopValue(pathComponents)
      tableName == PopValue(PopRest(pathComponents))
  IN IF ~resourceUrl.ok
       THEN [error |-> "TypeError", tableName |-> Undefined, schema |-> Undefined]
     ELSE IF schema # SCHEMA_PATH
       THEN [error |-> "InvalidResourceURI", tableName |-> tableName, schema |-> schema]
     ELSE [error |-> "none", tableName |-> tableName, schema |-> schema]

\* The cloud server's URI of a file, and its read-resource handler's decoding.
GdriveUriPrefix == <<"g", "d", "r", "i", "v", "e", ":", "/", "/", "/">>
GdriveResourceUri(fileId) == GdriveUriPrefix \o fileId
GdriveDecodeUri(uri) == ReplaceFirst(uri, GdriveUriPrefix, <<>>)

(***************************************************************************)
(* The relational server: requests.                                        *)
(***************************************************************************)
NoCursor == Undefined            \* request.params.cursor absent
NoString == <<>>                 \* a request field the request does not have

\* The SQL texts of the model, by what the database does with them.  The
\* texts a client sends are a write and a DDL statement: a text that only
\* reads does what the write does, less its pending effect.
SqlTexts == {"INSERT", "CREATE TABLE"}
SqlEffect(sql) ==
  IF sql = "INSERT" THEN "write"          \* transactional (DML)
  ELSE "ddl"                              \* triggers an implicit commit

\* The table catalog of the database.
Tables == {<<"t">>}

\* URIs a client may ask the relational server to read.
ForeignUri == <<"h", "t", "t", "p", ":", "/", "/", "h", "/", "t", "/">> \o SCHEMA_PATH
WrongViewUri == Origin \o <<"/", "t", "/", "d", "a", "t", "a">>
NoSchemeUri == <<"t", "/">> \o SCHEMA_PATH
MysqlReadUris ==
  {MysqlResourceUri(t) : t \in Tables} \cup {ForeignUri, WrongViewUri, NoSchemeUri}

\* Tool names a client may call; each server registers some of them.
MysqlTools == {"query"}
GdriveTools == {"search", "list_sheets", "read_sheet", "edit_sheet", "format_sheet"}
ToolNames == MysqlTools \cup GdriveTools \cup {"drop_table"}

\* The calls of the model: the query tool with each SQL text, and with one
\* text a tool of the other server and a name neither server registers.
MysqlCallInputs ==
  {<<"query", sql>> : sql \in SqlTexts}
    \cup {<<name, "INSERT">> : name \in {"search", "drop_table"}}

NoRequest == [kind |-> "none", name |-> "", sql |-> "", uri |-> NoString,
              cursor |-> NoCursor]

\* What a handler's try block, or the handler, completes with.
Return(isError) == [type |-> "return", isError |-> isError, error |-> "none"]
Throw(error) == [type |-> "throw", isError |-> FALSE, error |-> error]
NoCompletion == [type |-> "none", isError |-> FALSE, error |-> "none"]

(***************************************************************************)
(* The database session of a pool connection (external: the mysql2 client  *)
(* and the server behind it).  A write inside a transaction stays pending  *)
(* until a commit; outside one it is committed at once (autocommit).  A    *)
(* statement that triggers an implicit commit commits what is pending and  *)
(* its own effect.  START TRANSACTION commits an open transaction.  A      *)
(* rollback fails only on a broken connection, whose session the server    *)
(* ends, discarding its transaction.                                       *)
(***************************************************************************)
\* Durable mutations a successful beginTransaction on c causes.
BeginCost(c) == IF inTx[c] /\ pending[c] THEN 1 ELSE 0

\* Durable mutations a successful execution of sql on c causes.
QueryCost(c, sql) ==
  IF SqlEffect(sql) = "write"
    THEN IF inTx[c] THEN 0 ELSE 1
    ELSE 1 + (IF pending[c] THEN 1 ELSE 0)

QueryInTx(c, sql) == IF SqlEffect(sql) = "ddl" THEN FALSE ELSE inTx[c]

QueryPending(c, sql) ==
  IF SqlEffect(sql) = "write" THEN inTx[c] \/ pending[c] ELSE FALSE

(***************************************************************************)
(* The relational server: handlers.  A handler runs from one await to the  *)
(* next in one step; the client call and its answer are one step.          *)
(***************************************************************************)
Settle(r, c) ==
  /\ reply' = [reply EXCEPT ![r] = c]
  /\ pc' = [pc EXCEPT ![r] = "done"]

Logged(r, call) == log' = [log EXCEPT ![r] = Append(@, call)]

\* Mutant: the finally block ends the handler without giving the connection
\* back to the pool.
ReleaseConnection_KeepsConnection(r, calls, c) ==
  /\ UNCHANGED <<free, conn>>
  /\ log' = [log EXCEPT ![r] = @ \o calls]
  /\ Settle(r, c)

\* connection.release() in a finally block, after which the handler returns
\* or fails with what its try block completed with.  The calls made since the
\* last await are logged with it: no other handler runs in between.
ReleaseConnection(r, calls, c) ==
  /\ free' = free \cup {conn[r]}
  /\ conn' = [conn EXCEPT ![r] = 0]
  /\ log' = [log EXCEPT ![r] = (@ \o calls) \o <<"release">>]
  /\ Settle(r, c)

\* ListResourcesRequestSchema handler: it takes no request, so a cursor the
\* client sends is not read.
ReceiveListResources(r, cursor) ==
  /\ server = "mysql"
  /\ pc[r] = "idle"
  /\ req' = [req EXCEPT ![r] = [NoRequest EXCEPT !.kind = "list", !.cursor = cursor]]
  /\ pc' = [pc EXCEPT ![r] = "getConnection"]
  /\ UNCHANGED <<server, gdriveVars, pureVars, conn, free, inTx, pending, durable, completion, reply,
                 log, warned, queried>>

\* ReadResourceRequestSchema handler up to its first await: the URI is parsed
\* and its last path segment is checked before the pool is asked.
ReceiveReadResource(r, uri) ==
  /\ server = "mysql"
  /\ pc[r] = "idle"
  /\ req' = [req EXCEPT ![r] = [NoRequest EXCEPT !.kind = "read", !.uri = uri]]
  /\ IF MysqlDecodeUri(uri).error # "none"
       THEN Settle(r, Throw(MysqlDecodeUri(uri).error))
       ELSE /\ pc' = [pc EXCEPT ![r] = "getConnection"]
            /\ UNCHANGED reply
  /\ UNCHANGED <<server, gdriveVars, pureVars, conn, free, inTx, pending, durable, completion, log,
                 warned, queried>>

\* Mutant: the handler runs every call as the query tool.
IsQueryTool_Always(name) == TRUE

\* CallToolRequestSchema handler: the test of request.params.name.
IsQueryTool(name) == name = "query"

\* CallToolRequestSchema handler up to its first await.
ReceiveCallTool(r, name, sql) ==
  /\ server = "mysql"
  /\ pc[r] = "idle"
  /\ req' = [req EXCEPT ![r] = [NoRequest EXCEPT !.kind = "call", !.name = name,
                                                 !.sql = sql]]
  /\ IF IsQueryTool(name)
       THEN /\ pc' = [pc EXCEPT ![r] = "getConnection"]
            /\ UNCHANGED reply
       ELSE Settle(r, Throw("UnknownTool"))
  /\ UNCHANGED <<server, gdriveVars, pureVars, conn, free, inTx, pending, durable, completion, log,
                 warned, queried>>

\* Mutant: the query tool runs its SQL without beginning a transaction.
AfterGetConnection_NoTransaction(kind) ==
  CASE kind = "list" -> "listQuery"
    [] kind = "read" -> "readQuery"
    [] OTHER -> "query"

\* Where a handler goes on once pool.getConnection() has answered.
AfterGetConnection(kind) ==
  CASE kind = "list" -> "listQuery"
    [] kind = "read" -> "readQuery"
    [] OTHER -> "beginTransaction"

\* await pool.getConnection(): suspends while the pool has no free connection.
GetConnection(r) ==
  /\ pc[r] = "getConnection"
  /\ \E c \in free :
       /\ conn' = [conn EXCEPT ![r] = c]
       /\ free' = free \ {c}
  /\ Logged(r, "getConnection")
  /\ pc' = [pc EXCEPT ![r] = AfterGetConnection(req[r].kind)]
  /\ UNCHANGED <<server, gdriveVars, pureVars, req, inTx, pending, durable, completion, reply, warned,
                 queried>>

\* await pool.getConnection() rejects: it stands before the try block, so the
\* handler fails holding nothing.
GetConnectionFails(r) ==
  /\ pc[r] = "getConnection"
  /\ Logged(r, "getConnection:rejected")
  /\ Settle(r, Throw("PoolError"))
  /\ UNCHANGED <<server, gdriveVars, pureVars, req, conn, free, inTx, pending, durable, completion,
                 warned, queried>>

\* list-resources: the answer of the catalog query, the return statement and
\* the finally block.
ListTablesQuery(r) ==
  /\ pc[r] = "listQuery"
  /\ \E ok \in BOOLEAN :
       /\ completion' = [completion EXCEPT
                           ![r] = IF ok THEN Return(FALSE) ELSE Throw("QueryError")]
       /\ ReleaseConnection(r, <<IF ok THEN "query" ELSE "query:rejected">>,
                            IF ok THEN Return(FALSE) ELSE Throw("QueryError"))
  /\ queried' = [queried EXCEPT ![r] = Undefined]    \* the query takes no parameter
  /\ UNCHANGED <<server, gdriveVars, pureVars, req, inTx, pending, durable, warned>>

\* read-resource: the answer of the columns query for the decoded table name,
\* the return statement and the finally block.
ReadColumnsQuery(r) ==
  /\ pc[r] = "readQuery"
  /\ \E ok \in BOOLEAN :
       /\ completion' = [completion EXCEPT
                           ![r] = IF ok THEN Return(FALSE) ELSE Throw("QueryError")]
       /\ ReleaseConnection(r, <<IF ok THEN "query" ELSE "query:rejected">>,
                            IF ok THEN Return(FALSE) ELSE Throw("QueryError"))
  /\ queried' = [queried EXCEPT ![r] = MysqlDecodeUri(req[r].uri).tableName]
  /\ UNCHANGED <<server, gdriveVars, pureVars, req, inTx, pending, durable, warned>>

\* Mutant: a failed beginTransaction() ends the handler without its finally
\* block.
AfterBeginFailure_SkipsFinally == "done"

\* query tool: where the handler goes on when beginTransaction() rejects: the
\* catch rethrows and the finally block runs.
AfterBeginFailure == "rollback"

\* query tool: await connection.beginTransaction().
BeginTransaction(r) ==
  /\ pc[r] = "beginTransaction"
  /\ \/ /\ durable + BeginCost(conn[r]) <= MaxCommits
        /\ Logged(r, "beginTransaction")
        /\ durable' = durable + BeginCost(conn[r])
        /\ inTx' = [inTx EXCEPT ![conn[r]] = TRUE]
        /\ pending' = [pending EXCEPT ![conn[r]] = FALSE]
        /\ pc' = [pc EXCEPT ![r] = "query"]
        /\ UNCHANGED completion
     \/ /\ Logged(r, "beginTransaction:rejected")
        /\ completion' = [completion EXCEPT ![r] = Throw("BeginError")]
        /\ pc' = [pc EXCEPT ![r] = AfterBeginFailure]
        /\ UNCHANGED <<durable, inTx, pending>>
  /\ UNCHANGED <<server, gdriveVars, pureVars, req, conn, free, reply, warned, queried>>

\* query tool: await connection.query(sql), then the return statement or the
\* rethrowing catch; either way the finally block is next.
QuerySql(r) ==
  /\ pc[r] = "query"
  /\ \/ /\ durable + QueryCost(conn[r], req[r].sql) <= MaxCommits
        /\ Logged(r, "query")
        /\ durable' = durable + QueryCost(conn[r], req[r].sql)
        /\ inTx' = [inTx EXCEPT ![conn[r]] = QueryInTx(conn[r], req[r].sql)]
        /\ pending' = [pending EXCEPT ![conn[r]] = QueryPending(conn[r], req[r].sql)]
        /\ completion' = [completion EXCEPT ![r] = Return(FALSE)]
     \/ /\ Logged(r, "query:rejected")
        /\ completion' = [completion EXCEPT ![r] = Throw("QueryError")]
        /\ UNCHANGED <<durable, inTx, pending>>
  /\ pc' = [pc EXCEPT ![r] = "rollback"]
  /\ UNCHANGED <<server, gdriveVars, pureVars, req, conn, free, reply, warned, queried>>

\* Mutant: the rollback's error is not caught and replaces the completion.
AfterRollbackFailure_Escapes(c) == Throw("RollbackError")

\* query tool: what the handler completes with once rollback() has rejected:
\* the inner catch only warns, so the try block's completion stands.
AfterRollbackFailure(c) == c

\* query tool: the answer of the finally block's await connection.rollback()
\* in its own try/catch, then connection.release().
Rollback(r) ==
  /\ pc[r] = "rollback"
  /\ inTx' = [inTx EXCEPT ![conn[r]] = FALSE]
  /\ pending' = [pending EXCEPT ![conn[r]] = FALSE]
  /\ \/ /\ ReleaseConnection(r, <<"rollback">>, completion[r])
        /\ UNCHANGED <<completion, warned>>
     \/ /\ warned' = [warned EXCEPT ![r] = TRUE]
        /\ completion' = [completion EXCEPT ![r] = AfterRollbackFailure(@)]
        /\ ReleaseConnection(r, <<"rollback:rejected">>,
                             AfterRollbackFailure(completion[r]))
  /\ UNCHANGED <<server, gdriveVars, pureVars, req, durable, queried>>


\* The caller has its answer; the slot takes the next request.
Forget(r) ==
  /\ server = "mysql"
  /\ pc[r] = "done"
  /\ pc' = [pc EXCEPT ![r] = "idle"]
  /\ req' = [req EXCEPT ![r] = NoRequest]
  /\ completion' = [completion EXCEPT ![r] = NoCompletion]
  /\ reply' = [reply EXCEPT ![r] = NoCompletion]
  /\ log' = [log EXCEPT ![r] = <<>>]
  /\ warned' = [warned EXCEPT ![r] = FALSE]
  /\ queried' = [queried EXCEPT ![r] = NoString]
  /\ UNCHANGED <<server, gdriveVars, pureVars, conn, free, inTx, pending, durable>>

MysqlInit ==
  /\ pc = [r \in Requests |-> "idle"]
  /\ req = [r \in Requests |-> NoRequest]
  /\ conn = [r \in Requests |-> 0]
  /\ free = Conns
  /\ inTx = [c \in Conns |-> FALSE]
  /\ pending = [c \in Conns |-> FALSE]
  /\ durable = 0
  /\ completion = [r \in Requests |-> NoCompletion]
  /\ reply = [r \in Requests |-> NoCompletion]
  /\ log = [r \in Requests |-> <<>>]
  /\ warned = [r \in Requests |-> FALSE]
  /\ queried = [r \in Requests |-> NoString]

MysqlNext ==
  \E r \in Requests :
    \/ \E cursor \in {NoCursor, <<"p", "2">>} : ReceiveListResources(r, cursor)
    \/ \E uri \in MysqlReadUris : ReceiveReadResource(r, uri)
    \/ \E in \in MysqlCallInputs : ReceiveCallTool(r, in[1], in[2])
    \/ GetConnection(r)
    \/ GetConnectionFails(r)
    \/ ListTablesQuery(r)
    \/ ReadColumnsQuery(r)
    \/ BeginTransaction(r)
    \/ QuerySql(r)
    \/ Rollback(r)
    \/ Forget(r)

(***************************************************************************)
(* The cloud server: requests and backend answers.                         *)
(***************************************************************************)
EmptyString == <<>>

\* JavaScript truthiness of an optional string.
Truthy(str) == str # Undefined /\ str # EmptyString

\* The backend's catalog is NumPages pages; the page after page k is asked for
\* with PageToken(k + 1), and the first page with no token.
PageToken(k) == [i \in 1..k |-> "p"]
PageOfToken(token) ==
  IF token = Undefined THEN 1
  ELSE IF \E k \in 2..NumPages : token = PageToken(k)
    THEN CHOOSE k \in 2..NumPages : token = PageToken(k)
  ELSE 0                                   \* not a token of the backend
NextPageToken(k) == IF k < NumPages THEN PageToken(k + 1) ELSE Undefined

\* Cursors a client may send: none, the empty string, the backend's tokens and
\* a string that is no token.
Cursors ==
  {NoCursor, EmptyString, <<"x">>} \cup {PageToken(k) : k \in 2..NumPages}

NoList == [pageToken |-> Undefined, page |-> 0, nextPageToken |-> Undefined,
           nextCursor |-> Undefined]

\* Mutant: the cursor is not handed on.
ListPageToken_Dropped(cursor) == Undefined

\* ListResourcesRequestSchema handler (cloud): params.pageToken is set only
\* for a truthy cursor.
ListPageToken(cursor) == IF Truthy(cursor) THEN cursor ELSE Undefined

\* Arguments of the sheet tools, as far as the handlers branch on them.
\*   fileId: "id" (a raw id), "url" (a sharing URL the id can be taken from),
\*           "badUrl" (holds "http" and no id: extractFileIdFromUrl throws)
NoArgs == [fileId |-> "id", hasSheetName |-> FALSE, hasRange |-> FALSE,
           valuesValid |-> TRUE, formattingValid |-> TRUE, rangeShape |-> "range"]

FileIdInputs == {"id", "url", "badUrl"}

ArgsOf(name) ==
  CASE name = "list_sheets" ->
         {[NoArgs EXCEPT !.fileId = f] : f \in FileIdInputs}
    [] name = "read_sheet" ->
         {[NoArgs EXCEPT !.fileId = f, !.hasSheetName = s, !.hasRange = g] :
            f \in FileIdInputs, s \in BOOLEAN, g \in BOOLEAN}
    [] name = "edit_sheet" ->
         {[NoArgs EXCEPT !.fileId = f, !.hasRange = TRUE, !.valuesValid = v] :
            f \in FileIdInputs, v \in BOOLEAN}
    [] name = "format_sheet" ->
         {[NoArgs EXCEPT !.fileId = f, !.hasRange = TRUE, !.formattingValid = v,
                         !.rangeShape = sh] :
            f \in FileIdInputs, v \in BOOLEAN, sh \in {"range", "cell", "bad"}}
    [] OTHER -> {NoArgs}

NoGRequest == [kind |-> "none", name |-> "", uri |-> NoString, cursor |-> NoCursor,
               args |-> NoArgs]

NoFlags == [known |-> FALSE, canEdit |-> FALSE, canRead |-> FALSE,
            isPublic |-> FALSE]

\* A handled failure: the ToolCallResult with isError = true built from error.
ErrorResult(error) == [type |-> "return", isError |-> TRUE, error |-> error]

\* URIs a client may ask the cloud server to read.
GdriveReadUris ==
  {GdriveResourceUri(<<"f">>), ForeignUri, NoSchemeUri}

(***************************************************************************)
(* The cloud server: handlers.                                             *)
(***************************************************************************)
GSettle(c) ==
  /\ greply' = c
  /\ gpc' = "done"

GCalled(api) == gcalls' = Append(gcalls, api)

\* Mutant: no handler catches.
Caught_Rethrown(name, error) == Throw(error)

\* What a call-tool handler completes with when error is thrown in its body:
\* the four sheet tools wrap their body in try/catch and return a result with
\* isError = true; search has no try block.
Caught(name, error) ==
  IF name \in {"list_sheets", "read_sheet", "edit_sheet", "format_sheet"}
    THEN ErrorResult(error)
    ELSE Throw(error)

\* ---- list-resources ----
GListResources(cursor, fromClient) ==
  /\ server = "gdrive"
  /\ gpc = "idle"
  /\ fromClient =>
       /\ cursor = clientCursor
       /\ clientPages = <<>> \/ clientCursor # Undefined
  /\ greq' = [NoGRequest EXCEPT !.kind = IF fromClient THEN "clientList" ELSE "list",
                                !.cursor = cursor]
  /\ gpc' = "filesList"
  /\ UNCHANGED <<server, mysqlVars, pureVars, gcalls, greply, gfileId, gflags, gverify,
                 glist, clientCursor, clientPages>>

\* The nextCursor of the response, from the backend's nextPageToken.
ListNextCursor(nextPageToken) == nextPageToken

\* await drive.files.list(params), then the response.
GFilesList ==
  /\ gpc = "filesList"
  /\ GCalled("files.list")
  /\ LET pageToken == ListPageToken(greq.cursor)
         page == PageOfToken(pageToken)
     IN \/ /\ page # 0
           /\ glist' = [pageToken |-> pageToken, page |-> page,
                        nextPageToken |-> NextPageToken(page),
                        nextCursor |-> ListNextCursor(NextPageToken(page))]
           /\ GSettle(Return(FALSE))
           /\ IF greq.kind = "clientList"
                THEN /\ clientPages' = Append(clientPages, page)
                     /\ clientCursor' = ListNextCursor(NextPageToken(page))
                ELSE UNCHANGED <<clientCursor, clientPages>>
        \/ /\ glist' = [NoList EXCEPT !.pageToken = pageToken]
           /\ GSettle(Throw("BackendFailure"))
           /\ UNCHANGED <<clientCursor, clientPages>>
  /\ UNCHANGED <<server, mysqlVars, pureVars, greq, gfileId, gflags, gverify>>

\* ---- read-resource ----
GReadResource(uri) ==
  /\ server = "gdrive"
  /\ gpc = "idle"
  /\ greq' = [NoGRequest EXCEPT !.kind = "read", !.uri = uri]
  /\ gfileId' = GdriveDecodeUri(uri)
  /\ gpc' = "readFilesGet"
  /\ UNCHANGED <<server, mysqlVars, pureVars, gcalls, greply, gflags, gverify, glist,
                 clientCursor, clientPages>>

\* await drive.files.get({fileId, fields: "mimeType"}); nothing catches.
GReadFilesGet ==
  /\ gpc = "readFilesGet"
  /\ GCalled("files.get")
  /\ \/ /\ \E next \in {"readSpreadsheet", "readExport", "readMedia"} : gpc' = next
        /\ UNCHANGED greply
     \/ GSettle(Throw("BackendFailure"))
  /\ UNCHANGED <<server, mysqlVars, pureVars, greq, gfileId, gflags, gverify, glist,
                 clientCursor, clientPages>>

\* The second backend call of read-resource: sheets.spreadsheets.get for a
\* spreadsheet, drive.files.export for another Google document, drive.files.get
\* with alt=media for a regular file.
ReadContentApi(at) ==
  CASE at = "readSpreadsheet" -> "spreadsheets.get"
    [] at = "readExport" -> "files.export"
    [] OTHER -> "files.get"

GReadContent ==
  /\ gpc \in {"readSpreadsheet", "readExport", "readMedia"}
  /\ GCalled(ReadContentApi(gpc))
  /\ \/ GSettle(Return(FALSE))
     \/ GSettle(Throw("BackendFailure"))
  /\ UNCHANGED <<server, mysqlVars, pureVars, greq, gfileId, gflags, gverify, glist,
                 clientCursor, clientPages>>

\* Mutant: no tool asks the access check for the right to edit.
RequireEdit_Never(name) == FALSE

\* ---- call-tool ----
RequireEdit(name) == name \in {"edit_sheet", "format_sheet"}

\* CallToolRequestSchema handler up to its first await.
GReceiveCallTool(name, args) ==
  /\ server = "gdrive"
  /\ gpc = "idle"
  /\ greq' = [NoGRequest EXCEPT !.kind = "call", !.name = name, !.args = args]
  /\ CASE name = "search" ->
            /\ gpc' = "searchList"
            /\ UNCHANGED greply
       [] name \in {"list_sheets", "read_sheet", "edit_sheet", "format_sheet"} ->
            IF args.fileId = "badUrl"
              THEN GSettle(Caught(name, "InvalidObjectReference"))
              ELSE /\ gpc' = IF name = "list_sheets" THEN "filesGet"
                             ELSE "handlerEmail"
                   /\ UNCHANGED greply
       [] OTHER -> GSettle(Throw("UnknownTool"))
  /\ UNCHANGED <<server, mysqlVars, pureVars, gcalls, gfileId, gflags, gverify, glist,
                 clientCursor, clientPages>>

\* search: await drive.files.list({q, ...}).
GSearchList ==
  /\ gpc = "searchList"
  /\ GCalled("files.list")
  /\ \/ GSettle(Return(FALSE))
     \/ GSettle(Caught(greq.name, "BackendFailure"))
  /\ UNCHANGED <<server, mysqlVars, pureVars, greq, gfileId, gflags, gverify, glist,
                 clientCursor, clientPages>>

\* read_sheet, edit_sheet, format_sheet: await getCurrentUserEmail() before
\* the access check.  getCurrentUserEmail catches what about.get throws.
GHandlerEmail ==
  /\ gpc = "handlerEmail"
  /\ GCalled("about.get")
  /\ gpc' = "filesGet"
  /\ UNCHANGED <<server, mysqlVars, pureVars, greq, greply, gfileId, gflags, gverify, glist,
                 clientCursor, clientPages>>

\* Mutant: the read check ignores the sharing of the file.
AccessDecision_IgnoresSharing(requireEdit, canEdit, canRead, isPublic) ==
  IF requireEdit /\ ~canEdit THEN "EditDenied"
  ELSE IF ~canRead THEN "ReadDenied"
  ELSE "ok"

\* verifyFileAccess: the decision from the flags the backend reported.
AccessDecision(requireEdit, canEdit, canRead, isPublic) ==
  IF requireEdit /\ ~canEdit THEN "EditDenied"
  ELSE IF ~isPublic /\ ~canRead THEN "ReadDenied"
  ELSE "ok"

\* Where the handler goes on once verifyFileAccess has returned true, up to
\* its next await: the pc, or the completion it ends with at once.
AfterVerify(rq) ==
  CASE rq.name = "list_sheets" -> [pc |-> "sheetsGet", end |-> NoCompletion]
    [] rq.name = "read_sheet" ->
         [pc |-> IF rq.args.hasSheetName /\ ~rq.args.hasRange
                   THEN "readMetadata" ELSE "valuesGet",
          end |-> NoCompletion]
    [] rq.name = "edit_sheet" ->
         IF rq.args.valuesValid
           THEN [pc |-> "valuesUpdate", end |-> NoCompletion]
           ELSE [pc |-> "done", end |-> Caught(rq.name, "InvalidArguments")]
    [] OTHER ->
         IF rq.args.formattingValid
           THEN [pc |-> "formatSheetsGet", end |-> NoCompletion]
           ELSE [pc |-> "done", end |-> Caught(rq.name, "InvalidArguments")]

\* verifyFileAccess: await drive.files.get(...) and the mimeType check.
GVerifyFilesGet ==
  /\ gpc = "filesGet"
  /\ GCalled("files.get")
  /\ \/ \E canEdit \in BOOLEAN, canRead \in BOOLEAN :
          /\ gflags' = [NoFlags EXCEPT !.canEdit = canEdit, !.canRead = canRead]
          /\ gpc' = "permissions"
          /\ UNCHANGED <<greply, gverify>>
     \/ /\ gverify' = "NotSpreadsheet"
        /\ GSettle(Caught(greq.name, "NotSpreadsheet"))
        /\ UNCHANGED gflags
     \/ /\ gverify' = "NotFound"              \* err.code === 404
        /\ gpc' = "verifyEmail"
        /\ UNCHANGED <<greply, gflags>>
     \/ /\ gverify' = "BackendFailure"        \* rethrown as it is
        /\ GSettle(Caught(greq.name, "BackendFailure"))
        /\ UNCHANGED gflags
  /\ UNCHANGED <<server, mysqlVars, pureVars, greq, gfileId, glist, clientCursor, clientPages>>

\* verifyFileAccess: await drive.permissions.list(...) and the decision.
GVerifyPermissions ==
  /\ gpc = "permissions"
  /\ GCalled("permissions.list")
  /\ \/ \E isPublic \in BOOLEAN :
          LET decision == AccessDecision(RequireEdit(greq.name), gflags.canEdit,
                                         gflags.canRead, isPublic)
              next == AfterVerify(greq)
          IN /\ gflags' = [gflags EXCEPT !.known = TRUE, !.isPublic = isPublic]
             /\ gverify' = decision
             /\ IF decision # "ok"
                  THEN /\ gpc' = "verifyEmail"
                       /\ UNCHANGED greply
                  ELSE IF next.pc = "done"
                    THEN GSettle(next.end)
                    ELSE /\ gpc' = next.pc
                         /\ UNCHANGED greply
     \/ /\ gverify' = "NotFound"
        /\ gpc' = "verifyEmail"
        /\ UNCHANGED <<greply, gflags>>
     \/ /\ gverify' = "BackendFailure"
        /\ GSettle(Caught(greq.name, "BackendFailure"))
        /\ UNCHANGED gflags
  /\ UNCHANGED <<server, mysqlVars, pureVars, greq, gfileId, glist, clientCursor, clientPages>>

\* verifyFileAccess: await getCurrentUserEmail() for the message of the error
\* it then throws; the handler's catch makes the result of it.
GVerifyEmail ==
  /\ gpc = "verifyEmail"
  /\ GCalled("about.get")
  /\ GSettle(Caught(greq.name, gverify))
  /\ UNCHANGED <<server, mysqlVars, pureVars, greq, gfileId, gflags, gverify, glist,
                 clientCursor, clientPages>>

\* list_sheets: await sheets.spreadsheets.get(...).
GListSheetsGet ==
  /\ gpc = "sheetsGet"
  /\ GCalled("spreadsheets.get")
  /\ \/ GSettle(Return(FALSE))
     \/ GSettle(Caught(greq.name, "BackendFailure"))
  /\ UNCHANGED <<server, mysqlVars, pureVars, greq, gfileId, gflags, gverify, glist,
                 clientCursor, clientPages>>

\* read_sheet with a sheet name and no range: the metadata and the sheet lookup.
GReadMetadata ==
  /\ gpc = "readMetadata"
  /\ GCalled("spreadsheets.get")
  /\ \/ /\ gpc' = "valuesGet"                 \* the sheet is found
        /\ UNCHANGED greply
     \/ GSettle(Caught(greq.name, "InvalidRange"))
     \/ GSettle(Caught(greq.name, "BackendFailure"))
  /\ UNCHANGED <<server, mysqlVars, pureVars, greq, gfileId, gflags, gverify, glist,
                 clientCursor, clientPages>>

\* read_sheet: await sheets.spreadsheets.values.get(...).
GReadValuesGet ==
  /\ gpc = "valuesGet"
  /\ GCalled("values.get")
  /\ \/ GSettle(Return(FALSE))
     \/ GSettle(Caught(greq.name, "BackendFailure"))
  /\ UNCHANGED <<server, mysqlVars, pureVars, greq, gfileId, gflags, gverify, glist,
                 clientCursor, clientPages>>

\* edit_sheet: await sheets.spreadsheets.values.update(...) and the status check.
GEditValuesUpdate ==
  /\ gpc = "valuesUpdate"
  /\ GCalled("values.update")
  /\ \/ GSettle(Return(FALSE))                            \* status 200
     \/ GSettle(Caught(greq.name, "BackendFailure"))      \* another status, or a throw
  /\ UNCHANGED <<server, mysqlVars, pureVars, greq, gfileId, gflags, gverify, glist,
                 clientCursor, clientPages>>

\* format_sheet: await sheets.spreadsheets.get(...), the sheetId check and the
\* parse of the range.
GFormatSheetsGet ==
  /\ gpc = "formatSheetsGet"
  /\ GCalled("spreadsheets.get")
  /\ \/ IF greq.args.rangeShape = "bad"
          THEN GSettle(Caught(greq.name, "InvalidRange"))
          ELSE /\ gpc' = "batchUpdate"
               /\ UNCHANGED greply
     \/ GSettle(Caught(greq.name, "InvalidRange"))        \* !sheetId
     \/ GSettle(Caught(greq.name, "BackendFailure"))
  /\ UNCHANGED <<server, mysqlVars, pureVars, greq, gfileId, gflags, gverify, glist,
                 clientCursor, clientPages>>

\* format_sheet: await sheets.spreadsheets.batchUpdate(...) and the status check.
GFormatBatchUpdate ==
  /\ gpc = "batchUpdate"
  /\ GCalled("batchUpdate")
  /\ \/ GSettle(Return(FALSE))
     \/ GSettle(Caught(greq.name, "BackendFailure"))
  /\ UNCHANGED <<server, mysqlVars, pureVars, greq, gfileId, gflags, gverify, glist,
                 clientCursor, clientPages>>

\* The caller has its answer; the next request may come.
GForget ==
  /\ server = "gdrive"
  /\ gpc = "done"
  /\ gpc' = "idle"
  /\ greq' = NoGRequest
  /\ gcalls' = <<>>
  /\ greply' = NoCompletion
  /\ gfileId' = NoString
  /\ gflags' = NoFlags
  /\ gverify' = "none"
  /\ glist' = NoList
  /\ UNCHANGED <<server, mysqlVars, pureVars, clientCursor, clientPages>>

GdriveInit ==
  /\ gpc = "idle"
  /\ greq = NoGRequest
  /\ gcalls = <<>>
  /\ greply = NoCompletion
  /\ gfileId = NoString
  /\ gflags = NoFlags
  /\ gverify = "none"
  /\ glist = NoList
  /\ clientCursor = NoCursor
  /\ clientPages = <<>>

GdriveNext ==
  \/ \E cursor \in Cursors, fromClient \in BOOLEAN : GListResources(cursor, fromClient)
  \/ GFilesList
  \/ \E uri \in GdriveReadUris : GReadResource(uri)
  \/ GReadFilesGet
  \/ GReadContent
  \/ \E name \in ToolNames : \E args \in ArgsOf(name) : GReceiveCallTool(name, args)
  \/ GSearchList
  \/ GHandlerEmail
  \/ GVerifyFilesGet
  \/ GVerifyPermissions
  \/ GVerifyEmail
  \/ GListSheetsGet
  \/ GReadMetadata
  \/ GReadValuesGet
  \/ GEditValuesUpdate
  \/ GFormatSheetsGet
  \/ GFormatBatchUpdate
  \/ GForget

(***************************************************************************)
(* The resource-URI codec on its own: an object path is encoded as the     *)
(* list-resources handler encodes it and the URI is decoded as the         *)
(* read-resource handler decodes it.                                       *)
(***************************************************************************)
\* Characters of table names: MySQL allows any character but NUL in a quoted
\* identifier.  "/", ":", "." and non-ASCII characters are outside the model.
TableNameChars == {"t", "_", " ", "?", "#"}
\* Characters of Drive file ids.
FileIdChars == {"f", "_", "-", "1"}

NoCodec == [backend |-> "none", path |-> NoString, uri |-> Undefined,
            stage |-> "none", error |-> "none", outPath |-> Undefined,
            outView |-> Undefined]

CodecEncode ==
  /\ codec.stage = "path"
  /\ codec' = [codec EXCEPT
                 !.stage = "encoded",
                 !.uri = IF codec.backend = "mysql"
                           THEN MysqlResourceUri(codec.path)
                           ELSE GdriveResourceUri(codec.path)]
  /\ UNCHANGED <<server, mysqlVars, gdriveVars, col, rng, fmt>>

CodecDecode ==
  /\ codec.stage = "encoded"
  /\ codec' = IF codec.backend = "mysql"
                THEN [codec EXCEPT
                        !.stage = "decoded",
                        !.error = MysqlDecodeUri(codec.uri).error,
                        !.outPath = MysqlDecodeUri(codec.uri).tableName,
                        !.outView = MysqlDecodeUri(codec.uri).schema]
                ELSE [codec EXCEPT
                        !.stage = "decoded",
                        !.outPath = GdriveDecodeUri(codec.uri)]
  /\ UNCHANGED <<server, mysqlVars, gdriveVars, col, rng, fmt>>

(***************************************************************************)
(* The column conversions on their own.  A column label is the sequence of *)
(* its character codes ("A" is 65).                                        *)
(***************************************************************************)
MaxColumnIndex == 701          \* the index of column ZZ

RECURSIVE ColumnFold(_, _)
\* The loop of columnLetterToNumber: result = result * 26 + (code - 64).
ColumnFold(result, column) ==
  IF column = <<>> THEN result
  ELSE ColumnFold(result * 26 + (Head(column) - 64), Tail(column))

columnLetterToNumber(column) == ColumnFold(0, column) - 1

\* read_sheet's letter of the columnCount-th column:
\* String.fromCharCode(64 + columnCount).
ColumnCountLetter(columnCount) == <<64 + columnCount>>

ColumnCodes == 65..90
ColumnLabels ==
  {<<a>> : a \in ColumnCodes} \cup {<<a, b>> : a \in ColumnCodes, b \in ColumnCodes}

NoCol == [mode |-> "none", stage |-> 0, index |-> -1, letters |-> <<>>,
          back |-> -1, again |-> <<>>]

\* From an index: the letter of the column with that index (the
\* (index + 1)-th column), then the index of that letter.
ColumnOfIndex ==
  /\ col.mode = "index"
  /\ col.stage = 0
  /\ col' = [col EXCEPT !.stage = 1, !.letters = ColumnCountLetter(col.index + 1)]
  /\ UNCHANGED <<server, mysqlVars, gdriveVars, codec, rng, fmt>>

IndexOfColumn ==
  /\ col.mode = "index"
  /\ col.stage = 1
  /\ col' = [col EXCEPT !.stage = 2, !.back = columnLetterToNumber(col.letters)]
  /\ UNCHANGED <<server, mysqlVars, gdriveVars, codec, rng, fmt>>

\* From a label: its index, then the letter of the column with that index.
IndexOfLabel ==
  /\ col.mode = "label"
  /\ col.stage = 0
  /\ col' = [col EXCEPT !.stage = 1, !.index = columnLetterToNumber(col.letters)]
  /\ UNCHANGED <<server, mysqlVars, gdriveVars, codec, rng, fmt>>

LabelOfIndex ==
  /\ col.mode = "label"
  /\ col.stage = 1
  /\ col' = [col EXCEPT !.stage = 2, !.again = ColumnCountLetter(col.index + 1)]
  /\ UNCHANGED <<server, mysqlVars, gdriveVars, codec, rng, fmt>>

(***************************************************************************)
(* The range resolution of the sheet tools on its own: from the sheet name *)
(* and range of the arguments (and, for read_sheet without a range, the    *)
(* sheet's metadata) to the range the handler sends to the backend.        *)
(***************************************************************************)
MaxRowCount == 11       \* most rows the metadata reports for a sheet
MaxColumnCount == 27    \* most columns the metadata reports for a sheet

\* The characters with codes 65, 66, ...: String.fromCharCode(64 + i) is the
\* i-th of them.
CharsFrom65 ==
  <<"A", "B", "C", "D", "E", "F", "G", "H", "I", "J", "K", "L", "M", "N", "O",
    "P", "Q", "R", "S", "T", "U", "V", "W", "X", "Y", "Z", "[", "\\", "]", "^",
    "_">>
FromCharCode(code) == CharsFrom65[code - 64]
FromCharCodes(codes) == [i \in DOMAIN codes |-> FromCharCode(codes[i])]

DecimalDigits == <<"0", "1", "2", "3", "4", "5", "6", "7", "8", "9">>

RECURSIVE NumberToString(_)
\* The decimal text of a natural number, as a template literal renders it.
NumberToString(n) ==
  IF n < 10 THEN <<DecimalDigits[n + 1]>>
  ELSE NumberToString(n \div 10) \o <<DecimalDigits[(n % 10) + 1]>>

\* a || b for numbers: 0 (and undefined, which the model writes 0) is falsy.
NumberOr(a, b) == IF a # 0 THEN a ELSE b
\* a || b for optional strings.
StringOr(a, b) == IF Truthy(a) THEN a ELSE b

Sheet1A1Z1000 ==
  <<"S", "h", "e", "e", "t", "1", "!", "A", "1", ":", "Z", "1", "0", "0", "0">>

\* read_sheet: the range of a whole sheet from its grid properties.
WholeSheetRange(sheetName, columnCount, rowCount) ==
  sheetName \o <<"!", "A", "1", ":">>
    \o FromCharCodes(ColumnCountLetter(NumberOr(columnCount, 26)))
    \o NumberToString(NumberOr(rowCount, 1000))

\* read_sheet: whether the handler asks for the metadata of the spreadsheet.
ReadNeedsMetadata(sheetName, rangeInput) == Truthy(sheetName) /\ ~Truthy(rangeInput)

\* read_sheet: effectiveRange, the range of its values.get request, once the
\* sheet has been found where it is looked up.
ReadSheetRange(sheetName, rangeInput, columnCount, rowCount) ==
  LET actualRange == IF ReadNeedsMetadata(sheetName, rangeInput)
                       THEN WholeSheetRange(sheetName, columnCount, rowCount)
                       ELSE rangeInput
  IN StringOr(actualRange, StringOr(sheetName, Sheet1A1Z1000))

NoGrid == [startRowIndex |-> 0, endRowIndex |-> 0, startColumnIndex |-> 0,
           endColumnIndex |-> 0]

NoRng == [tool |-> "none", stage |-> "none", sheetName |-> Undefined,
          rangeInput |-> Undefined, found |-> TRUE, rowCount |-> 0,
          columnCount |-> 0, sheetId |-> 0, sent |-> Undefined,
          grid |-> NoGrid, error |-> "none"]

SheetNameS == <<"S">>

\* read_sheet called with a sheet name and no range: the sheet is or is not
\* in the metadata, which reports its grid (0: a count it does not report).
ReadWholeSheetInputs ==
  {[NoRng EXCEPT !.tool = "read_sheet", !.stage = "args",
                 !.sheetName = SheetNameS, !.found = f,
                 !.rowCount = rows, !.columnCount = columns] :
     f \in BOOLEAN, rows \in 0..MaxRowCount, columns \in 0..MaxColumnCount}

\* read_sheet from its arguments to the values.get request, or to the error
\* it throws when the named sheet is not in the metadata.
ReadSheetResolve ==
  /\ rng.tool = "read_sheet"
  /\ rng.stage = "args"
  /\ rng' = IF ReadNeedsMetadata(rng.sheetName, rng.rangeInput) /\ ~rng.found
              THEN [rng EXCEPT !.stage = "failed", !.error = "InvalidRange"]
              ELSE [rng EXCEPT !.stage = "sent",
                               !.sent = ReadSheetRange(rng.sheetName, rng.rangeInput,
                                                       rng.columnCount, rng.rowCount)]
  /\ UNCHANGED <<server, mysqlVars, gdriveVars, codec, col, fmt>>

Sheet1Bang == <<"S", "h", "e", "e", "t", "1", "!">>

\* edit_sheet: actualRange, the range of its values.update request.
EditSheetRange(sheetName, rangeInput) ==
  LET actualRange == IF Truthy(sheetName) /\ ~Includes(rangeInput, <<"!">>)
                       THEN sheetName \o <<"!">> \o rangeInput
                       ELSE rangeInput
  IN IF ~Includes(actualRange, <<"!">>) THEN Sheet1Bang \o actualRange
     ELSE actualRange

\* format_sheet: actualRange, the range its spreadsheets.get request names
\* and its grid range is parsed from.
FormatSheetRange(sheetName, rangeInput) ==
  LET actualRange == IF Truthy(sheetName) /\ ~Includes(rangeInput, <<"!">>)
                       THEN sheetName \o <<"!">> \o rangeInput
                       ELSE rangeInput
  IN IF ~Includes(actualRange, <<"!">>) THEN Sheet1Bang \o actualRange
     ELSE actualRange

\* Sheet names and explicit ranges of the arguments: no sheet name, the empty
\* one or S; a range without a sheet qualifier, or qualified with S or T.
SheetNames == {Undefined, EmptyString, SheetNameS}
RangeQualifiers == {<<>>, <<"S", "!">>, <<"T", "!">>}
SampleRanges == {<<"A", "1", ":", "C", "5">>, <<"B", "2">>}

ExplicitRangeInputs(tool, ranges) ==
  {[NoRng EXCEPT !.tool = tool, !.stage = "args", !.sheetName = name,
                 !.sheetId = 1, !.rangeInput = q \o body] :
     name \in SheetNames, q \in RangeQualifiers, body \in ranges}

\* edit_sheet from its arguments to the values.update request.
EditSheetResolve ==
  /\ rng.tool = "edit_sheet"
  /\ rng.stage = "args"
  /\ rng' = [rng EXCEPT !.stage = "sent",
                        !.sent = EditSheetRange(rng.sheetName, rng.rangeInput)]
  /\ UNCHANGED <<server, mysqlVars, gdriveVars, codec, col, fmt>>

\* format_sheet from its arguments to the spreadsheets.get request.
FormatSheetResolve ==
  /\ rng.tool = "format_sheet"
  /\ rng.stage = "args"
  /\ rng' = [rng EXCEPT !.stage = "resolved",
                        !.sent = FormatSheetRange(rng.sheetName, rng.rangeInput)]
  /\ UNCHANGED <<server, mysqlVars, gdriveVars, codec, col, fmt>>

MaxRangeLen == 5        \* longest range expression given to format_sheet

UpperLetters == {CharsFrom65[i] : i \in 1..26}
DigitChars == {DecimalDigits[i] : i \in 1..10}

\* String.charCodeAt of an upper-case letter.
CharCodeAt(ch) == 64 + (CHOOSE i \in 1..26 : CharsFrom65[i] = ch)
CharCodes(str) == [i \in DOMAIN str |-> CharCodeAt(str[i])]

RECURSIVE ParseDecimal(_, _)
\* parseInt of a string of decimal digits.
ParseDecimal(acc, digits) ==
  IF digits = <<>> THEN acc
  ELSE ParseDecimal(10 * acc + ((CHOOSE i \in 1..10 : DecimalDigits[i] = Head(digits)) - 1),
                    Tail(digits))
ParseInt(digits) == ParseDecimal(0, digits)

RECURSIVE RunEnd(_, _, _)
\* The position after the longest run of characters of cs that starts at i.
RunEnd(str, cs, i) ==
  IF i > Len(str) THEN i
  ELSE IF str[i] \in cs THEN RunEnd(str, cs, i + 1)
  ELSE i

\* ([A-Z]+)(\d+) matched at position i: both groups are greedy, and a shorter
\* group never helps, since the character after a run is not of its class.
CellAt(str, i) ==
  LET lettersEnd == RunEnd(str, UpperLetters, i)
      digitsEnd == RunEnd(str, DigitChars, lettersEnd)
  IN [ok |-> lettersEnd > i /\ digitsEnd > lettersEnd,
      column |-> SubSeq(str, i, lettersEnd - 1),
      row |-> SubSeq(str, lettersEnd, digitsEnd - 1),
      end |-> digitsEnd]

\* ([A-Z]+)(\d+):([A-Z]+)(\d+) matched at position i.
RangeAt(str, i) ==
  LET first == CellAt(str, i)
      colon == first.ok /\ first.end <= Len(str) /\ str[first.end] = ":"
      second == CellAt(str, first.end + 1)
  IN [ok |-> colon /\ second.ok, first |-> first, second |-> second]

\* Whether the range pattern, or the single cell pattern, matches at i.
MatchesAt(str, pattern, i) ==
  IF pattern = "range" THEN RangeAt(str, i).ok ELSE CellAt(str, i).ok

\* String.match of an unanchored pattern: the leftmost position it matches
\* at, or 0 (null).
MatchStart(str, pattern) ==
  IF \E i \in 1..Len(str) : MatchesAt(str, pattern, i)
    THEN CHOOSE i \in 1..Len(str) :
           /\ MatchesAt(str, pattern, i)
           /\ \A j \in 1..(i - 1) : ~MatchesAt(str, pattern, j)
    ELSE 0

\* format_sheet: the parse of the part of actualRange after its first "!",
\* and the range of the repeatCell request.
FormatGridRange(actualRange) ==
  LET a1 == Split(actualRange, "!")[2]
      rangeParts == MatchStart(a1, "range")
      cellParts == MatchStart(a1, "cell")
      first == IF rangeParts # 0 THEN RangeAt(a1, rangeParts).first
               ELSE CellAt(a1, cellParts)
      second == IF rangeParts # 0 THEN RangeAt(a1, rangeParts).second ELSE first
      startCol == columnLetterToNumber(CharCodes(first.column))
      startRow == ParseInt(first.row) - 1
      endCol == columnLetterToNumber(CharCodes(second.column))
      endRow == ParseInt(second.row) - 1
  IN IF rangeParts = 0 /\ cellParts = 0
       THEN [ok |-> FALSE, grid |-> NoGrid]
       ELSE [ok |-> TRUE,
             grid |-> [startRowIndex |-> startRow, endRowIndex |-> endRow + 1,
                       startColumnIndex |-> startCol,
                       endColumnIndex |-> endCol + 1]]

\* Range expressions given to format_sheet: every string of these characters.
RangeChars == {"A", "C", "0", "1", "5", ":"}

FormatRangeInputs ==
  {[NoRng EXCEPT !.tool = "format_sheet", !.stage = "args", !.rangeInput = body,
                 !.sheetId = id] :
     body \in StringsUpTo(RangeChars, MaxRangeLen), id \in {0, 1}}

\* format_sheet once spreadsheets.get has answered: the sheetId test (0 and
\* undefined fail it), the parse of the range and the batch update.
FormatSheetParse ==
  /\ rng.tool = "format_sheet"
  /\ rng.stage = "resolved"
  /\ rng' = IF rng.sheetId = 0
              THEN [rng EXCEPT !.stage = "failed", !.error = "NoSheetId"]
            ELSE IF ~FormatGridRange(rng.sent).ok
              THEN [rng EXCEPT !.stage = "failed", !.error = "InvalidRange"]
            ELSE [rng EXCEPT !.stage = "sent",
                             !.grid = FormatGridRange(rng.sent).grid]
  /\ UNCHANGED <<server, mysqlVars, gdriveVars, codec, col, fmt>>

(***************************************************************************)
(* The cell format of format_sheet on its own.                             *)
(***************************************************************************)
\* A JavaScript object is a function from the keys it has; formatting.x of a
\* key it lacks is undefined.
EmptyObject == [k \in {} |-> 0]
HasKey(object, key) == key \in DOMAIN object

HexDigitChars ==
  <<"0", "1", "2", "3", "4", "5", "6", "7", "8", "9", "a", "b", "c", "d", "e", "f">>
UpperHexDigitChars ==
  <<"0", "1", "2", "3", "4", "5", "6", "7", "8", "9", "A", "B", "C", "D", "E", "F">>

IsHexDigit(ch) ==
  \E i \in 1..16 : HexDigitChars[i] = ch \/ UpperHexDigitChars[i] = ch

\* parseInt(ch, 16) of one hexadecimal digit.
HexDigitValue(ch) ==
  (CHOOSE i \in 1..16 : HexDigitChars[i] = ch \/ UpperHexDigitChars[i] = ch) - 1

\* parseInt(pair, 16) of two hexadecimal digits.
ParseHexPair(pair) == 16 * HexDigitValue(pair[1]) + HexDigitValue(pair[2])

\* hexToRgb: /^#?([a-f\d]{2})([a-f\d]{2})([a-f\d]{2})$/i on hex, and black
\* when it does not match.
hexToRgb(hex) ==
  LET digits == IF hex # <<>> /\ Head(hex) = "#" THEN Tail(hex) ELSE hex
      result == Len(digits) = 6 /\ \A i \in 1..6 : IsHexDigit(digits[i])
  IN IF result
       THEN [r |-> ParseHexPair(SubSeq(digits, 1, 2)),
             g |-> ParseHexPair(SubSeq(digits, 3, 4)),
             b |-> ParseHexPair(SubSeq(digits, 5, 6))]
       ELSE [r |-> 0, g |-> 0, b |-> 0]

\* A color of the update: each channel is a fraction <<numerator, denominator>>.
ColorOf(hex) ==
  LET color == hexToRgb(hex)
  IN [red |-> <<color.r, 255>>, green |-> <<color.g, 255>>,
      blue |-> <<color.b, 255>>, alpha |-> <<1, 1>>]

\* String.toUpperCase on the alignment names of the model.
ToUpperCase(str) ==
  CASE str = "center" -> "CENTER"
    [] str = "top" -> "TOP"
    [] OTHER -> str

\* The tests format_sheet makes of the attributes of formatting.
StringGiven(formatting, key) == HasKey(formatting, key) /\ formatting[key] # <<>>
AlignmentGiven(formatting, key) == HasKey(formatting, key) /\ formatting[key] # ""
FontSizeGiven(formatting) == HasKey(formatting, "fontSize") /\ formatting["fontSize"] # 0

\* Mutant: bold is tested for truth, as the strings and the number are.
BooleanGiven_Truthy(formatting, key) == HasKey(formatting, key) /\ formatting[key] = TRUE

\* formatting.bold !== undefined, formatting.italic !== undefined.
BooleanGiven(formatting, key) == HasKey(formatting, key)

IfGiven(given, key, value) == IF given THEN key :> value ELSE EmptyObject

\* format_sheet: userFormatting.textFormat after the four tests that assign it.
TextFormatOf(formatting) ==
  IfGiven(StringGiven(formatting, "textColor"), "foregroundColor",
          IF StringGiven(formatting, "textColor")
            THEN ColorOf(formatting["textColor"]) ELSE EmptyObject)
    @@ IfGiven(FontSizeGiven(formatting), "fontSize",
               IF FontSizeGiven(formatting) THEN formatting["fontSize"] ELSE 0)
    @@ IfGiven(BooleanGiven(formatting, "bold"), "bold",
               IF BooleanGiven(formatting, "bold") THEN formatting["bold"] ELSE FALSE)
    @@ IfGiven(BooleanGiven(formatting, "italic"), "italic",
               IF BooleanGiven(formatting, "italic") THEN formatting["italic"] ELSE FALSE)

\* format_sheet: userFormatting, the cell format of the update.
UserFormattingOf(formatting) ==
  IfGiven(StringGiven(formatting, "backgroundColor"), "backgroundColor",
          IF StringGiven(formatting, "backgroundColor")
            THEN ColorOf(formatting["backgroundColor"]) ELSE EmptyObject)
    @@ IfGiven(DOMAIN TextFormatOf(formatting) # {}, "textFormat",
               TextFormatOf(formatting))
    @@ IfGiven(AlignmentGiven(formatting, "horizontalAlignment"), "horizontalAlignment",
               IF AlignmentGiven(formatting, "horizontalAlignment")
                 THEN ToUpperCase(formatting["horizontalAlignment"]) ELSE "")
    @@ IfGiven(AlignmentGiven(formatting, "verticalAlignment"), "verticalAlignment",
               IF AlignmentGiven(formatting, "verticalAlignment")
                 THEN ToUpperCase(formatting["verticalAlignment"]) ELSE "")

\* The fields mask 'userEnteredFormat(' + Object.keys(userFormatting).join(',')
\* + ')': the keys it names.
FieldsOf(userFormatting) == DOMAIN userFormatting

\* The values a client may give each attribute; <<>> is the attribute left
\* out, <<v>> the attribute given as v.
Red == <<"#", "f", "f", "0", "0", "0", "0">>
ColorChoices ==
  {<<>>, <<Red>>, <<<<"0", "0", "0", "0", "F", "F">>>>, <<<<>>>>,
   <<<<"r", "e", "d">>>>, <<<<"#", "f", "f", "0">>>>}
FontSizeChoices == {<<>>, <<0>>, <<12>>}
BooleanChoices == {<<>>, <<FALSE>>, <<TRUE>>}
AlignmentChoices == {<<>>, <<"">>, <<"center">>}

Attribute(key, choice) == IF choice = <<>> THEN EmptyObject ELSE key :> choice[1]

FormattingObjects ==
  {Attribute("backgroundColor", bg) @@ Attribute("textColor", tc)
     @@ Attribute("fontSize", fs) @@ Attribute("bold", b) @@ Attribute("italic", i)
     @@ Attribute("horizontalAlignment", h) @@ Attribute("verticalAlignment", v) :
     bg \in ColorChoices, tc \in ColorChoices, fs \in FontSizeChoices,
     b \in BooleanChoices, i \in BooleanChoices,
     h \in AlignmentChoices, v \in {<<>>, <<"top">>}}

NoFmt == [stage |-> "none", formatting |-> EmptyObject,
          userFormatting |-> EmptyObject, fields |-> {}, error |-> "none"]

\* format_sheet from the formatting argument to the repeatCell request.
BuildUserFormatting ==
  /\ fmt.stage = "args"
  /\ fmt' = [fmt EXCEPT !.stage = "built",
                        !.userFormatting = UserFormattingOf(fmt.formatting),
                        !.fields = FieldsOf(UserFormattingOf(fmt.formatting))]
  /\ UNCHANGED <<server, mysqlVars, gdriveVars, codec, col, rng>>

\* format_sheet: await sheets.spreadsheets.batchUpdate(...) with the request.
SendFormatUpdate ==
  /\ fmt.stage = "built"
  /\ fmt' = [fmt EXCEPT !.stage = "sent"]
  /\ UNCHANGED <<server, mysqlVars, gdriveVars, codec, col, rng>>

(***************************************************************************)
(* The specifications.  Spec: one of the two servers, from its start.      *)
(* SpecCodec and SpecColumns: the pure conversions on every input of the   *)
(* bounded sets.                                                           *)
(***************************************************************************)
Init ==
  /\ server \in {"mysql", "gdrive"}
  /\ MysqlInit
  /\ GdriveInit
  /\ codec = NoCodec
  /\ col = NoCol
  /\ rng = NoRng
  /\ fmt = NoFmt

Next == MysqlNext \/ GdriveNext

Spec == Init /\ [][Next]_vars

CodecInit ==
  /\ server = "none"
  /\ MysqlInit
  /\ GdriveInit
  /\ col = NoCol
  /\ rng = NoRng
  /\ fmt = NoFmt
  /\ \/ \E path \in StringsUpTo(TableNameChars, MaxNameLen) :
          codec = [NoCodec EXCEPT !.backend = "mysql", !.path = path,
                                  !.stage = "path"]
     \/ \E path \in StringsUpTo(FileIdChars, MaxNameLen) :
          codec = [NoCodec EXCEPT !.backend = "gdrive", !.path = path,
                                  !.stage = "path"]

CodecNext == CodecEncode \/ CodecDecode

SpecCodec == CodecInit /\ [][CodecNext]_vars

ColumnsInit ==
  /\ server = "none"
  /\ MysqlInit
  /\ GdriveInit
  /\ codec = NoCodec
  /\ rng = NoRng
  /\ fmt = NoFmt
  /\ \/ \E i \in 0..MaxColumnIndex :
          col = [NoCol EXCEPT !.mode = "index", !.index = i]
     \/ \E label \in ColumnLabels :
          col = [NoCol EXCEPT !.mode = "label", !.letters = label]

ColumnsNext == ColumnOfIndex \/ IndexOfColumn \/ IndexOfLabel \/ LabelOfIndex

SpecColumns == ColumnsInit /\ [][ColumnsNext]_vars

RangeInit ==
  /\ server = "none"
  /\ MysqlInit
  /\ GdriveInit
  /\ codec = NoCodec
  /\ col = NoCol
  /\ fmt = NoFmt
  /\ rng \in ReadWholeSheetInputs
              \cup {[NoRng EXCEPT !.tool = "read_sheet", !.stage = "args",
                                  !.sheetName = name] : name \in SheetNames}
              \cup ExplicitRangeInputs("read_sheet", SampleRanges)
              \cup ExplicitRangeInputs("edit_sheet", SampleRanges)
              \cup ExplicitRangeInputs("format_sheet", SampleRanges)
              \cup FormatRangeInputs

RangeNext ==
  ReadSheetResolve \/ EditSheetResolve \/ FormatSheetResolve \/ FormatSheetParse

SpecRange == RangeInit /\ [][RangeNext]_vars

FormatInit ==
  /\ server = "none"
  /\ MysqlInit
  /\ GdriveInit
  /\ codec = NoCodec
  /\ col = NoCol
  /\ rng = NoRng
  /\ \E formatting \in FormattingObjects :
       fmt = [NoFmt EXCEPT !.stage = "args", !.formatting = formatting]

FormatNext == BuildUserFormatting \/ SendFormatUpdate

SpecFormat == FormatInit /\ [][FormatNext]_vars

(***************************************************************************)
(* Properties.                                                             *)
(***************************************************************************)
Positions(l, events) == {i \in DOMAIN l : l[i] \in events}
Has(l, event) == Positions(l, {event}) # {}

RollbackAttempts(r) == Positions(log[r], {"rollback", "rollback:rejected"})
Releases(r) == Positions(log[r], {"release"})
IsQueryCall(r) == req[r].kind = "call" /\ req[r].name = "query"

\* C1: a call of the query tool that obtained a pool connection has, when it
\* returns or fails, attempted the rollback exactly once and released the
\* connection exactly once, the rollback before the release, whichever of
\* beginTransaction, query and rollback failed.
C1_RollbackOnceThenReleaseOnce ==
  \A r \in Requests :
    (IsQueryCall(r) /\ Has(log[r], "getConnection")) =>
      /\ Cardinality(RollbackAttempts(r)) <= 1
      /\ Cardinality(Releases(r)) <= 1
      /\ \A i \in Releases(r) : \E j \in RollbackAttempts(r) : j < i
      /\ pc[r] = "done" =>
           /\ Cardinality(RollbackAttempts(r)) = 1
           /\ Cardinality(Releases(r)) = 1
           /\ conn[r] = 0

\* A query call that ended after beginTransaction and the rollback both failed.
C1_Witness ==
  \E r \in Requests :
    /\ IsQueryCall(r)
    /\ pc[r] = "done"
    /\ Has(log[r], "beginTransaction:rejected")
    /\ Has(log[r], "rollback:rejected")
    /\ Has(log[r], "release")

\* C2: the durable state of the database changes only in a step that executes
\* a query text that triggers an implicit commit; the query tool executes its
\* text only inside a transaction begun on the connection it holds, and what
\* that transaction wrote is never committed.
C2_NoDurableMutation ==
  /\ [](\A r \in Requests :
          pc[r] = "query" => (conn[r] # 0 /\ inTx[conn[r]] /\ ~pending[conn[r]]))
  /\ [][durable' # durable =>
          \E r \in Requests :
            /\ pc[r] = "query"
            /\ pc'[r] = "rollback"
            /\ SqlEffect(req[r].sql) = "ddl"]_vars

\* A query call that executed an INSERT and returned its result, the database
\* as it was at the start.
C2_Witness ==
  \E r \in Requests :
    /\ IsQueryCall(r)
    /\ req[r].sql = "INSERT"
    /\ pc[r] = "done"
    /\ Has(log[r], "query")
    /\ reply[r] = Return(FALSE)
    /\ durable = 0
    /\ \A c \in Conns : ~pending[c]

\* C3: when the rollback of a query call fails, the caller still gets the
\* query's result with isError = false if the query succeeded, and the query's
\* own error if it failed; the rollback's error never reaches the caller.
C3_RollbackFailureSwallowed ==
  \A r \in Requests :
    (IsQueryCall(r) /\ pc[r] = "done" /\ Has(log[r], "rollback:rejected")) =>
      /\ warned[r]
      /\ Has(log[r], "query") => reply[r] = Return(FALSE)
      /\ Has(log[r], "query:rejected") => reply[r] = Throw("QueryError")
      /\ reply[r].error # "RollbackError"

\* A query call whose query succeeded and whose rollback failed.
C3_Witness ==
  \E r \in Requests :
    /\ IsQueryCall(r)
    /\ pc[r] = "done"
    /\ Has(log[r], "query")
    /\ Has(log[r], "rollback:rejected")

SheetTools == {"list_sheets", "read_sheet", "edit_sheet", "format_sheet"}

C5_UnknownToolFaults ==
  /\ \A r \in Requests :
       (req[r].kind = "call" /\ req[r].name \notin {"query"}) =>
         /\ log[r] = <<>>
         /\ conn[r] = 0
         /\ pc[r] = "done"
         /\ reply[r] = Throw("UnknownTool")
  /\ (greq.kind = "call" /\ greq.name \notin SheetTools \cup {"search"}) =>
       /\ gcalls = <<>>
       /\ gpc = "done"
       /\ greply = Throw("UnknownTool")

\* The relational server was asked for the cloud server's search tool while
\* another request held the pool's connection.
C5_Witness ==
  \E r, q \in Requests :
    /\ req[r].kind = "call"
    /\ req[r].name = "search"
    /\ pc[r] = "done"
    /\ conn[q] # 0

\* C6: once the backend has reported the flags of an existing spreadsheet,
\* verifyFileAccess succeeds exactly when (requireEdit implies canEdit) and
\* (shared publicly or domain-wide, or read capability), and otherwise fails
\* with an access-denied error, which the tool returns as isError = true.
C6_AccessPolicy ==
  gflags.known =>
    LET requireEdit == greq.name \in {"edit_sheet", "format_sheet"}
        allowed == /\ requireEdit => gflags.canEdit
                   /\ gflags.isPublic \/ gflags.canRead
    IN /\ allowed <=> gverify = "ok"
       /\ ~allowed => gverify \in {"EditDenied", "ReadDenied"}
       /\ (~allowed /\ gpc = "done") => greply = ErrorResult(gverify)
       /\ (requireEdit /\ ~gflags.canEdit) => gverify = "EditDenied"

\* A publicly shared spreadsheet without edit or read capability passed the
\* check of a reading tool.
C6_Witness ==
  /\ gflags.known
  /\ gflags.isPublic
  /\ ~gflags.canEdit
  /\ ~gflags.canRead
  /\ greq.name = "read_sheet"
  /\ gverify = "ok"

\* C7 as stated: decoding the URI that list-resources gives an object path, as
\* read-resource decodes it, yields the object path and the view encoded.
C7_RoundTrip ==
  codec.stage = "decoded" =>
    /\ codec.error = "none"
    /\ codec.outPath = codec.path
    /\ codec.backend = "mysql" => codec.outView = SCHEMA_PATH

\* C8 as stated: a read-resource request whose URI does not end in the view
\* literal, or whose scheme is not the server's, fails as an invalid URI
\* before a pool connection is asked for or a backend call is issued.
C8_InvalidUriFaultsEarly ==
  /\ \A r \in Requests :
       LET url == ParseUrl(req[r].uri)
           trailing == PopValue(Split(url.pathname, "/"))
       IN (req[r].kind = "read" /\ (trailing # SCHEMA_PATH \/ url.scheme # BaseScheme)) =>
            /\ log[r] = <<>>
            /\ pc[r] = "done"
            /\ reply[r].type = "throw"
            /\ reply[r].error \in {"InvalidResourceURI", "TypeError"}
  /\ (greq.kind = "read" /\ ~StartsWith(greq.uri, GdriveUriPrefix)) =>
       /\ gcalls = <<>>
       /\ gpc = "done"
       /\ greply.type = "throw"

IsListRequest == greq.kind \in {"list", "clientList"}

\* C9 as stated: for every list-resources request the page token handed to
\* the backend is the request's cursor when one is given and absent when none
\* is, and nextCursor is the backend's next-page token.
C9_Original ==
  /\ \A r \in Requests :
       (req[r].kind = "list" /\ Has(log[r], "query")) => queried[r] = req[r].cursor
  /\ (IsListRequest /\ gpc = "done") =>
       /\ glist.pageToken = greq.cursor
       /\ glist.nextCursor = glist.nextPageToken

\* C9 as amended: on the cloud server the page token handed to the backend is
\* the request's cursor when a non-empty cursor is given and absent when the
\* cursor is absent or empty, nextCursor is the backend's next-page token, and
\* a client that starts without a cursor and passes each nextCursor on gets
\* the backend's pages in order, each once, until nextCursor is absent.
C9_CursorPassThrough ==
  /\ (IsListRequest /\ gpc = "done") =>
       /\ glist.pageToken =
            (IF greq.cursor \in {Undefined, EmptyString} THEN Undefined ELSE greq.cursor)
       /\ glist.page # 0 =>
            /\ glist.nextCursor = NextPageToken(glist.page)
            /\ glist.page = PageOfToken(glist.pageToken)
  /\ Len(clientPages) <= NumPages
  /\ \A i \in DOMAIN clientPages : clientPages[i] = i
  /\ (clientPages # <<>> /\ clientCursor = Undefined) => Len(clientPages) = NumPages

\* The paging client has been given the last page.
C9_Witness ==
  /\ Len(clientPages) = NumPages
  /\ NumPages > 1
  /\ clientCursor = Undefined

IsColumnLabel(letters) ==
  /\ letters # <<>>
  /\ \A i \in DOMAIN letters : letters[i] \in ColumnCodes

\* C10 as stated: the letter-to-index conversion reads a label as a base-26
\* number without a zero digit (A = 0, Z = 25, AA = 26, AZ = 51), and the
\* index-to-letter conversion of the program is its inverse for 0..701: the
\* letters of index i are a column label whose index is i, and the letters of
\* a label's index are the label.
C10_ColumnConversions ==
  /\ (col.mode = "label" /\ col.stage >= 1) =>
       /\ col.letters = <<65>> => col.index = 0
       /\ col.letters = <<90>> => col.index = 25
       /\ col.letters = <<65, 65>> => col.index = 26
       /\ col.letters = <<65, 90>> => col.index = 51
  /\ (col.mode = "index" /\ col.stage = 2 /\ col.index <= 701) =>
       /\ IsColumnLabel(col.letters)
       /\ col.back = col.index
  /\ (col.mode = "label" /\ col.stage = 2) => col.again = col.letters

\* The label of the n-th column (1 is A, 26 is Z, 27 is AA, 702 is ZZ).
LabelOfColumn(n) ==
  IF n <= 26 THEN <<FromCharCode(64 + n)>>
  ELSE <<FromCharCode(64 + ((n - 1) \div 26)), FromCharCode(65 + ((n - 1) % 26))>>

\* C11 as stated: read_sheet called with a sheet name of the metadata and no
\* range asks for rows 1..rowCount and columns A to the columnCount-th column
\* of that sheet: <sheetName>!A1:<label of columnCount><rowCount>.
C11_WholeSheetRange ==
  (/\ rng.tool = "read_sheet"
   /\ rng.stage # "args"
   /\ Truthy(rng.sheetName) /\ ~Truthy(rng.rangeInput) /\ rng.found
   /\ rng.rowCount >= 1 /\ rng.columnCount >= 1) =>
    /\ rng.stage = "sent"
    /\ rng.sent = rng.sheetName \o <<"!", "A", "1", ":">>
                    \o LabelOfColumn(rng.columnCount) \o NumberToString(rng.rowCount)

\* C12 as stated: in read_sheet, edit_sheet and format_sheet, an explicit
\* range given with a sheet name is sent prefixed with <sheetName>! when it
\* has no sheet qualifier, and unchanged when it has one.
C12_RangePrefixed ==
  (/\ rng.tool \in {"read_sheet", "edit_sheet", "format_sheet"}
   /\ rng.stage \in {"sent", "resolved", "failed"}
   /\ rng.sent # Undefined
   /\ Truthy(rng.sheetName)
   /\ Truthy(rng.rangeInput)) =>
    rng.sent = IF Includes(rng.rangeInput, <<"!">>) THEN rng.rangeInput
               ELSE rng.sheetName \o <<"!">> \o rng.rangeInput

TextAttributes == {"textColor", "fontSize", "bold", "italic"}
FormatFields ==
  {"backgroundColor", "textFormat", "horizontalAlignment", "verticalAlignment"}

\* C13 as stated: the fields mask of the format_sheet update names
\* backgroundColor iff backgroundColor was supplied, textFormat iff any of
\* textColor, fontSize, bold, italic was supplied, and each alignment iff it
\* was supplied, and nothing else.
C13_Original ==
  fmt.stage \in {"built", "sent"} =>
    /\ fmt.fields \subseteq FormatFields
    /\ "backgroundColor" \in fmt.fields <=> HasKey(fmt.formatting, "backgroundColor")
    /\ "textFormat" \in fmt.fields <=> (DOMAIN fmt.formatting \cap TextAttributes # {})
    /\ "horizontalAlignment" \in fmt.fields
         <=> HasKey(fmt.formatting, "horizontalAlignment")
    /\ "verticalAlignment" \in fmt.fields
         <=> HasKey(fmt.formatting, "verticalAlignment")

\* An attribute supplied with a value JavaScript takes for true: a non-empty
\* string (a color is a sequence of characters), a number other than 0.
SuppliedTruthy(formatting, key) ==
  /\ HasKey(formatting, key)
  /\ formatting[key] #
       (CASE key \in {"backgroundColor", "textColor"} -> <<>>
          [] key = "fontSize" -> 0
          [] OTHER -> "")

BoldRedBackground == ("bold" :> TRUE) @@ ("backgroundColor" :> Red)

\* C13 as amended: the mask names backgroundColor iff a non-empty
\* backgroundColor was supplied, textFormat iff a non-empty textColor, a
\* non-zero fontSize, bold or italic was supplied, and each alignment iff it
\* was supplied non-empty, and nothing else; {bold: true, backgroundColor:
\* "#ff0000"} gives exactly backgroundColor and textFormat, with the color
\* channels (1, 0, 0).
C13_FieldsMask ==
  fmt.stage \in {"built", "sent"} =>
    /\ fmt.fields \subseteq FormatFields
    /\ fmt.fields = DOMAIN fmt.userFormatting
    /\ "backgroundColor" \in fmt.fields
         <=> SuppliedTruthy(fmt.formatting, "backgroundColor")
    /\ "textFormat" \in fmt.fields
         <=> \/ SuppliedTruthy(fmt.formatting, "textColor")
             \/ SuppliedTruthy(fmt.formatting, "fontSize")
             \/ HasKey(fmt.formatting, "bold")
             \/ HasKey(fmt.formatting, "italic")
    /\ "horizontalAlignment" \in fmt.fields
         <=> SuppliedTruthy(fmt.formatting, "horizontalAlignment")
    /\ "verticalAlignment" \in fmt.fields
         <=> SuppliedTruthy(fmt.formatting, "verticalAlignment")
    /\ fmt.formatting = BoldRedBackground =>
         /\ fmt.fields = {"backgroundColor", "textFormat"}
         /\ fmt.userFormatting["backgroundColor"].red = <<255, 255>>
         /\ fmt.userFormatting["backgroundColor"].green = <<0, 255>>
         /\ fmt.userFormatting["backgroundColor"].blue = <<0, 255>>
         /\ fmt.userFormatting["textFormat"] = ("bold" :> TRUE)

\* The update for {bold: false, fontSize: 0} was sent: its mask names
\* textFormat, for bold alone.
C13_Witness ==
  /\ fmt.stage = "sent"
  /\ fmt.formatting = ("bold" :> FALSE) @@ ("fontSize" :> 0)
  /\ fmt.fields = {"textFormat"}

\* A hex color: six hexadecimal digits after an optional "#".
IsHexColor(hex) ==
  LET digits == IF hex # <<>> /\ Head(hex) = "#" THEN Tail(hex) ELSE hex
  IN Len(digits) = 6 /\ \A i \in 1..6 : IsHexDigit(digits[i])

\* C14 as stated: when the backgroundColor or textColor given to format_sheet
\* is not a well-formed hex color, the call fails with an invalid-color error
\* and no format update is sent to the backend.
C14_InvalidColorRejected ==
  (/\ fmt.stage \in {"built", "sent"}
   /\ \E key \in {"backgroundColor", "textColor"} :
        HasKey(fmt.formatting, key) /\ ~IsHexColor(fmt.formatting[key])) =>
    /\ fmt.error = "InvalidColor"
    /\ fmt.stage # "sent"

\* C15 as stated: every cell range format_sheet sends with its batch update
\* is a non-empty rectangle with 0-based bounds, 0 <= startRowIndex <
\* endRowIndex and 0 <= startColumnIndex < endColumnIndex; a range expression
\* that gives no such region is rejected before the update.
C15_GridRangeNonEmpty ==
  (rng.tool = "format_sheet" /\ rng.stage = "sent") =>
    /\ 0 <= rng.grid.startRowIndex
    /\ rng.grid.startRowIndex < rng.grid.endRowIndex
    /\ 0 <= rng.grid.startColumnIndex
    /\ rng.grid.startColumnIndex < rng.grid.endColumnIndex

Acquisitions(r) == Positions(log[r], {"getConnection"})
HeldConnections == {conn[r] : r \in Requests} \ {0}
Finished(r) == pc[r] \in {"idle", "done"}

\* C16: under any interleaving of list-resources, read-resource and query
\* requests, each request obtains and holds at most one pool connection, no
\* connection is held by two requests, a held connection is not free, the
\* held connections are never more than the pool size, and a request that
\* has returned or failed holds none, so the whole pool is free when no
\* request is in flight.
C16_PoolDiscipline ==
  /\ \A r \in Requests :
       /\ conn[r] \in Conns \cup {0}
       /\ Cardinality(Acquisitions(r)) <= 1
       /\ Cardinality(Releases(r)) <= Cardinality(Acquisitions(r))
       /\ conn[r] # 0 <=> (Acquisitions(r) # {} /\ Releases(r) = {})
       /\ Finished(r) => conn[r] = 0
  /\ \A r1, r2 \in Requests : (r1 # r2 /\ conn[r1] # 0) => conn[r1] # conn[r2]
  /\ HeldConnections \cap free = {}
  /\ HeldConnections \cup free = Conns
  /\ Cardinality(HeldConnections) <= PoolSize
  /\ (\A r \in Requests : Finished(r)) => free = Conns

\* Every connection is held, by requests of different kinds or with one
\* request waiting for the pool, after an earlier request gave one back.
C16_Witness ==
  \E r1, r2 \in Requests :
    /\ r1 # r2
    /\ conn[r1] # 0
    /\ free = {}
    /\ pc[r2] = "done" /\ Releases(r2) # {}
    /\ req[r1].kind # req[r2].kind

MutatingCalls == {"values.update", "batchUpdate"}
VerifiedBefore(i) ==
  \E j \in Positions(gcalls, {"permissions.list"}) : j < i

\* C17: in edit_sheet and format_sheet a mutating backend call (values
\* update, batch update) is issued only after the access check with
\* requireEdit = true has succeeded in the same call, on a file the identity
\* may edit; once the check has failed no mutating call is issued and the
\* call ends with isError = true.  No other tool issues a mutating call.
C17_MutationAfterEditCheck ==
  /\ Positions(gcalls, MutatingCalls) # {} =>
       /\ greq.name \in {"edit_sheet", "format_sheet"}
       /\ gverify = "ok"
       /\ gflags.known /\ gflags.canEdit
       /\ \A i \in Positions(gcalls, MutatingCalls) : VerifiedBefore(i)
  /\ (greq.name \in {"edit_sheet", "format_sheet"} /\ gverify \notin {"none", "ok"}) =>
       /\ Positions(gcalls, MutatingCalls) = {}
       /\ gpc \in {"verifyEmail", "done"}
       /\ gpc = "done" => (greply.type = "return" /\ greply.isError)

\* A format_sheet call that sent its batch update after the check let it pass.
C17_Witness ==
  /\ greq.name = "format_sheet"
  /\ gpc = "done"
  /\ Has(gcalls, "batchUpdate")
  /\ gverify = "ok"
  /\ ~greply.isError

\* C18 as stated: the identity's email is looked up only when a diagnostic is
\* built: a list_sheets, read_sheet, edit_sheet or format_sheet call that ends
\* with isError = false has issued no email lookup (about.get).
C18_NoEmailLookupOnSuccess ==
  (/\ greq.name \in SheetTools
   /\ gpc = "done"
   /\ greply.type = "return"
   /\ ~greply.isError) => ~Has(gcalls, "about.get")

====
